---- MODULE Spec2Model ----
(***************************************************************************)
(* A model of the feed scraper of crawler/src/xhs.py: the date normaliser  *)
(* extract_date, XHSCrawler.search and XHSCrawler.catch_item_content with  *)
(* its comment scroll loop.                                                *)
(*                                                                         *)
(* Text is a sequence of characters, one string per character.  The        *)
(* Chinese characters the code matches are written by their pinyin:        *)
(*   "tian" 天  "qian" 前  "xiao" 小  "shi" 时  "gang" 刚  "zuo" 昨         *)
(*   "shang" 上 "zhou" 周  "zan" 赞 (as a whole label)                      *)
(* Python values that may be None, an int or a str are records with a py   *)
(* field naming the type.                                                  *)
(***************************************************************************)
EXTENDS Integers, Sequences, FiniteSets, TLC

VARIABLES
    \* extract_date called on its own
    text, now, result, dpc,
    \* XHSCrawler.search
    cards, search_results, filter_search_results, results, idx, spc,
    \* XHSCrawler.catch_item_content
    page, note_url, rendered, note_id, media_contents, content, tag_list,
    date, like_count, collect_count, comment_count, comments,
    scroll_count, scrollTop, end_visible, end_checks, scroll_actions,
    state, waits, exc, ret, pc,
    \* the batch driver use_xhs_crawler, with XHSCrawler.start and .close and
    \* the ManualChromeConnector
    port, ws, attach, site, save_file,
    crawler_connector, crawler_context, crawler_page, browser, playwright,
    ws_url, res, datas, bi, file, started, visited, pauses, closes,
    close_calls, bexc, bpc,
    \* generate_event_stream of agent-front/main.py
    tokens, ti, events, tool_calls_made, thinking_id, uuids, epc,
    \* generate_and_save_single_lesson and main of
    \* work_jianao_generate/jiaoan_generate_workflow_main.py
    lesson_files, li, runs, call_log, success_count, lpc,
    \* SiliconFlowASR.transcribe_with_format of study_understand
    media_file_path, keep_temp_file, files, files0, formatted_audio, apc

dateVars == <<text, now, result, dpc>>
searchVars == <<cards, search_results, filter_search_results, results, idx, spc>>
itemVars == <<page, note_url, rendered, note_id, media_contents, content,
              tag_list, date, like_count, collect_count, comment_count,
              comments, scroll_count, scrollTop, end_visible, end_checks,
              scroll_actions, state, waits, exc, ret, pc>>
batchVars == <<port, ws, attach, site, save_file, crawler_connector,
               crawler_context, crawler_page, browser, playwright, ws_url,
               res, datas, bi, file, started, visited, pauses, closes,
               close_calls, bexc, bpc>>
sseVars == <<tokens, ti, events, tool_calls_made, thinking_id, uuids, epc>>
lessonVars == <<lesson_files, li, runs, call_log, success_count, lpc>>
asrVars == <<media_file_path, keep_temp_file, files, files0, formatted_audio,
             apc>>
\* the crawler's variables, and those of the other programs
crawlerVars == <<dateVars, searchVars, itemVars, batchVars>>
otherVars == <<sseVars, lessonVars, asrVars>>
vars == <<crawlerVars, otherVars>>

-----------------------------------------------------------------------------
(* Python values *)

None == [py |-> "None", s |-> <<>>, n |-> 0]
PyStr(s) == [py |-> "str", s |-> s, n |-> 0]
PyInt(n) == [py |-> "int", s |-> <<>>, n |-> n]

-----------------------------------------------------------------------------
(* Characters and the regular expressions of extract_date *)

Digits == {"0", "1", "2", "3", "4", "5", "6", "7", "8", "9"}

IsDigit(c) == c \in Digits

DigitVal(c) ==
    CASE c = "0" -> 0 [] c = "1" -> 1 [] c = "2" -> 2 [] c = "3" -> 3
      [] c = "4" -> 4 [] c = "5" -> 5 [] c = "6" -> 6 [] c = "7" -> 7
      [] c = "8" -> 8 [] c = "9" -> 9

DigitChar(n) ==
    CASE n = 0 -> "0" [] n = 1 -> "1" [] n = 2 -> "2" [] n = 3 -> "3"
      [] n = 4 -> "4" [] n = 5 -> "5" [] n = 6 -> "6" [] n = 7 -> "7"
      [] n = 8 -> "8" [] n = 9 -> "9"

\* t[i..j], empty when j < i
Slice(t, i, j) == SubSeq(t, i, j)

\* the literal lit occurs in t at position i
LitAt(t, i, lit) ==
    /\ i >= 1
    /\ i + Len(lit) - 1 <= Len(t)
    /\ \A k \in 1..Len(lit) : t[i + k - 1] = lit[k]

\* int() of a string of decimal digits
RECURSIVE int(_)
int(s) == IF s = <<>> THEN 0
          ELSE 10 * int(SubSeq(s, 1, Len(s) - 1)) + DigitVal(s[Len(s)])

\* \d{4}-\d{2}-\d{2} matches t at position i
AbsAt(t, i) ==
    /\ i + 9 <= Len(t)
    /\ \A k \in 0..9 : IF k \in {4, 7} THEN t[i + k] = "-" ELSE IsDigit(t[i + k])

\* the length of the match of \d{1,2}<suffix> at position i (greedy: two
\* digits are tried first), 0 when there is none
DigitsThenAt(t, i, suffix) ==
    IF i <= Len(t) /\ IsDigit(t[i])
    THEN IF i + 1 <= Len(t) /\ IsDigit(t[i + 1]) /\ LitAt(t, i + 2, suffix)
         THEN 2 + Len(suffix)
         ELSE IF LitAt(t, i + 1, suffix) THEN 1 + Len(suffix) ELSE 0
    ELSE 0

\* re.search: the leftmost position where a match starts, 0 when none
FirstPos(S) == IF S = {} THEN 0 ELSE CHOOSE i \in S : \A j \in S : i <= j

SearchAbs(t) == FirstPos({i \in 1..Len(t) : AbsAt(t, i)})
SearchDigitsThen(t, suffix) ==
    FirstPos({i \in 1..Len(t) : DigitsThenAt(t, i, suffix) > 0})
SearchLit(t, lit) == FirstPos({i \in 1..Len(t) : LitAt(t, i, lit)})

TianQian == <<"tian", "qian">>
XiaoShiQian == <<"xiao", "shi", "qian">>
GangGang == <<"gang", "gang">>
ZuoTian == <<"zuo", "tian">>

-----------------------------------------------------------------------------
(* time.localtime / time.mktime / time.strftime("%Y-%m-%d") in a zone with *)
(* a fixed offset: t counts the seconds of local time since 1970-01-01.    *)

SecondsPerDay == 24 * 60 * 60

\* the civil date of a day number (days since 1970-01-01), as <<y, m, d>>
CivilFromDays(days) ==
    LET z == days + 719468
        era == z \div 146097
        doe == z - era * 146097
        yoe == (doe - (doe \div 1460) + (doe \div 36524) - (doe \div 146096)) \div 365
        doy == doe - (365 * yoe + (yoe \div 4) - (yoe \div 100))
        mp == (5 * doy + 2) \div 153
        d == doy - ((153 * mp + 2) \div 5) + 1
        m == IF mp < 10 THEN mp + 3 ELSE mp - 9
        y == yoe + era * 400 + (IF m <= 2 THEN 1 ELSE 0)
    IN  <<y, m, d>>

Pad2(n) == <<DigitChar(n \div 10), DigitChar(n % 10)>>
Pad4(n) == <<DigitChar((n \div 1000) % 10), DigitChar((n \div 100) % 10),
             DigitChar((n \div 10) % 10), DigitChar(n % 10)>>

\* time.strftime("%Y-%m-%d", time.localtime(t))
strftime(t) ==
    LET c == CivilFromDays(t \div SecondsPerDay)
    IN  Pad4(c[1]) \o <<"-">> \o Pad2(c[2]) \o <<"-">> \o Pad2(c[3])

-----------------------------------------------------------------------------
(* extract_date(text), evaluated at local time t *)

\* lines 17-21: the N天前 branch
day_before(t, tx) ==
    LET i == SearchDigitsThen(tx, TianQian)
        n == DigitsThenAt(tx, i, TianQian)
        day == int(Slice(tx, i, i + n - 1 - Len(TianQian)))
    IN  PyStr(strftime(t - day * 24 * 60 * 60))

extract_date_swapped(t, tx) ==
    IF SearchAbs(tx) > 0
    THEN PyStr(Slice(tx, SearchAbs(tx), SearchAbs(tx) + 9))
    ELSE IF SearchLit(tx, ZuoTian) > 0 THEN PyStr(strftime(t - 24 * 60 * 60))
    ELSE IF SearchLit(tx, GangGang) > 0 THEN PyStr(strftime(t))
    ELSE IF SearchDigitsThen(tx, XiaoShiQian) > 0 THEN PyStr(strftime(t))
    ELSE IF SearchDigitsThen(tx, TianQian) > 0 THEN day_before(t, tx)
    ELSE None

extract_date_loose(t, tx) ==
    IF SearchAbs(tx) > 0
    THEN PyStr(Slice(tx, SearchAbs(tx), SearchAbs(tx) + 9))
    ELSE IF SearchDigitsThen(tx, TianQian) > 0 THEN day_before(t, tx)
    ELSE IF SearchLit(tx, XiaoShiQian) > 0 THEN PyStr(strftime(t))
    ELSE IF SearchLit(tx, GangGang) > 0 THEN PyStr(strftime(t))
    ELSE IF SearchLit(tx, ZuoTian) > 0 THEN PyStr(strftime(t - 24 * 60 * 60))
    ELSE None

extract_date(t, tx) ==
    IF SearchAbs(tx) > 0
    THEN PyStr(Slice(tx, SearchAbs(tx), SearchAbs(tx) + 9))
    ELSE IF SearchDigitsThen(tx, TianQian) > 0 THEN day_before(t, tx)
    ELSE IF SearchDigitsThen(tx, XiaoShiQian) > 0 THEN PyStr(strftime(t))
    ELSE IF SearchLit(tx, GangGang) > 0 THEN PyStr(strftime(t))
    ELSE IF SearchLit(tx, ZuoTian) > 0 THEN PyStr(strftime(t - 24 * 60 * 60))
    ELSE None

-----------------------------------------------------------------------------
(* extract_date on its own: the text and the clock are the inputs *)

MaxFrags == 2

Fragments ==
    { <<"2", "0", "2", "3", "-", "1", "1", "-", "0", "5">>,    \* 2023-11-05
      <<"3", "tian", "qian">>,                                  \* 3天前
      <<"1", "2", "tian", "qian">>,                             \* 12天前
      <<"1", "0", "0", "tian", "qian">>,                        \* 100天前
      <<"3", "6", "5", "tian", "qian">>,                        \* 365天前
      <<"5", "xiao", "shi", "qian">>,                           \* 5小时前
      <<"gang", "gang">>,                                       \* 刚刚
      <<"zuo", "tian">>,                                        \* 昨天
      <<"shang", "zhou">>,                                      \* 上周
      <<"tian", "qian">>,                                       \* 天前
      <<"xiao", "shi", "qian">>,                                \* 小时前
      <<"0">>,
      <<" ">> }

RECURSIVE TextsOf(_)
TextsOf(n) ==
    IF n = 0 THEN {<<>>}
    ELSE LET shorter == TextsOf(n - 1)
         IN  shorter \cup {a \o f : a \in shorter, f \in Fragments}

\* the local clock: 2024-06-10 00:00:00 and 23:59:59, 2024-03-01 12:00:00,
\* 2024-01-01 01:00:00
Clocks ==
    { 19884 * SecondsPerDay, 19884 * SecondsPerDay + 86399,
      19783 * SecondsPerDay + 43200, 19723 * SecondsPerDay + 3600 }

InitDateVars ==
    /\ text \in TextsOf(MaxFrags)
    /\ now \in Clocks
    /\ result = None
    /\ dpc = "call"

IdleDateVars ==
    /\ text = <<>>
    /\ now = 19884 * SecondsPerDay + 86399
    /\ result = None
    /\ dpc = "idle"

\* one call of extract_date(text)
CallExtractDate ==
    /\ dpc = "call"
    /\ result' = extract_date(now, text)
    /\ dpc' = "done"
    /\ UNCHANGED <<text, now>>
    /\ UNCHANGED <<searchVars, itemVars, batchVars, otherVars>>

-----------------------------------------------------------------------------
(* XHSCrawler.search: the rendered result cards are the input.  Reading an *)
(* element that is not there times out and raises.                         *)

MaxCards == 3

base_url == <<"h", "t", "t", "p", "s", ":", "/", "/", "w", "w", "w", ".", "x", "i", "a", "o", "h", "o", "n", "g", "s", "h", "u", ".", "c", "o", "m">>

Readable(v) == [st |-> "ok", v |-> v]
Unreadable == [st |-> "timeout", v |-> <<>>]
UnreadableText == [st |-> "timeout", v |-> ""]
NoAttribute == [st |-> "none", v |-> <<>>]

Href1 == <<"/", "e", "x", "p", "l", "o", "r", "e", "/", "6", "4", "a", "1", "?", "x", "s", "e", "c", "_", "t", "o", "k", "e", "n", "=", "A", "B">>
Href2 == <<"/", "e", "x", "p", "l", "o", "r", "e", "/", "6", "4", "b", "2", "?", "x", "s", "e", "c", "_", "t", "o", "k", "e", "n", "=", "C", "D">>

Card(bundle, href, author, time) ==
    [bundle |-> bundle, href |-> href, author |-> author, time |-> time]

GoodCard1 == Card(FALSE, Readable(Href1), Readable("author1"), Readable("05-01"))
GoodCard2 == Card(FALSE, Readable(Href2), Readable("author2"), Readable("3 days ago"))
BundleCard == Card(TRUE, Readable(Href1), Readable("author1"), Readable("05-01"))

CardKinds ==
    { GoodCard1, GoodCard2, BundleCard,
      Card(TRUE, Unreadable, UnreadableText, UnreadableText),
      Card(FALSE, Unreadable, Readable("author1"), Readable("05-01")),
      Card(FALSE, NoAttribute, Readable("author1"), Readable("05-01")),
      Card(FALSE, Readable(<<>>), Readable("author1"), Readable("05-01")),
      Card(FALSE, Readable(Href1), UnreadableText, Readable("05-01")),
      Card(FALSE, Readable(Href2), Readable("author2"), UnreadableText) }

RECURSIVE SeqsUpTo(_, _)
SeqsUpTo(S, n) ==
    IF n = 0 THEN {<<>>}
    ELSE LET shorter == SeqsUpTo(S, n - 1)
         IN  shorter \cup {Append(a, x) : a \in shorter, x \in S}

\* a result page of 10 cards, 3 of them recommendation bundles
TenCards ==
    <<GoodCard1, BundleCard, GoodCard2, GoodCard2, BundleCard,
      GoodCard1, GoodCard1, BundleCard, GoodCard2, GoodCard1>>

InitSearchVars ==
    /\ cards \in SeqsUpTo(CardKinds, MaxCards) \cup {TenCards}
    /\ search_results = <<>>
    /\ filter_search_results = <<>>
    /\ results = <<>>
    /\ idx = 0
    /\ spc = "submit"

IdleSearchVars ==
    /\ cards = <<>>
    /\ search_results = <<>>
    /\ filter_search_results = <<>>
    /\ results = <<>>
    /\ idx = 0
    /\ spc = "idle"

\* lines 53-59: fill the query, press Enter, wait for the first card
SearchSubmit ==
    /\ spc = "submit"
    /\ spc' = IF cards = <<>> THEN "raised" ELSE "collect"
    /\ UNCHANGED <<cards, search_results, filter_search_results, results, idx>>
    /\ UNCHANGED <<dateVars, itemVars, batchVars, otherVars>>

\* lines 66-67: every rendered card, in DOM order
SearchCollect ==
    /\ spc = "collect"
    /\ search_results' = cards
    /\ spc' = "filter"
    /\ UNCHANGED <<cards, filter_search_results, results, idx>>
    /\ UNCHANGED <<dateVars, itemVars, batchVars, otherVars>>

HasBundleMarker(item) == item.bundle

KeepAll(items) == items

\* lines 69-74
FilterBundles(items) == SelectSeq(items, LAMBDA item : ~HasBundleMarker(item))

SearchFilter ==
    /\ spc = "filter"
    /\ filter_search_results' = FilterBundles(search_results)
    /\ idx' = 0
    /\ spc' = "process"
    /\ UNCHANGED <<cards, search_results, results>>
    /\ UNCHANGED <<dateVars, itemVars, batchVars, otherVars>>

\* lines 80-83 raise when the link, the author or the date cannot be read
ReadRaises(item) ==
    \/ item.href.st = "timeout"
    \/ item.author.st = "timeout"
    \/ item.time.st = "timeout"

\* line 89: the href is neither None nor empty
Truthy(href) == href.st = "ok" /\ href.v # <<>>

ResultItem(item) ==
    [url |-> base_url \o item.href.v, author |-> item.author.v, date |-> item.time.v]

\* lines 79-94: one card of the loop, as <<the results, whether it raised>>
ProcessCardAborting(item, rs) ==
    IF ReadRaises(item) THEN <<rs, TRUE>>
    ELSE IF Truthy(item.href) THEN <<Append(rs, ResultItem(item)), FALSE>>
    ELSE <<rs, FALSE>>

ProcessCard(item, rs) ==
    IF ReadRaises(item) THEN <<rs, FALSE>>
    ELSE IF Truthy(item.href) THEN <<Append(rs, ResultItem(item)), FALSE>>
    ELSE <<rs, FALSE>>

SearchProcess ==
    /\ spc = "process"
    /\ idx < Len(filter_search_results)
    /\ LET out == ProcessCard(filter_search_results[idx + 1], results)
       IN  /\ results' = out[1]
           /\ spc' = IF out[2] THEN "raised" ELSE "process"
    /\ idx' = idx + 1
    /\ UNCHANGED <<cards, search_results, filter_search_results>>
    /\ UNCHANGED <<dateVars, itemVars, batchVars, otherVars>>

\* line 96
SearchReturn ==
    /\ spc = "process"
    /\ idx = Len(filter_search_results)
    /\ spc' = "returned"
    /\ UNCHANGED <<cards, search_results, filter_search_results, results, idx>>
    /\ UNCHANGED <<dateVars, itemVars, batchVars, otherVars>>

-----------------------------------------------------------------------------
(* XHSCrawler.catch_item_content: the detail page is the input.            *)

MaxSlides == 2
MaxRows == 2

\* line 145
scroll_step == 500
\* line 147
max_scroll_times == 50

Letters ==
    {"a", "b", "c", "d", "e", "f", "g", "h", "i", "j", "k", "l", "m", "n",
     "o", "p", "q", "r", "s", "t", "u", "v", "w", "x", "y", "z",
     "A", "B", "C", "D", "E", "F", "G", "H", "I", "J", "K", "L", "M", "N",
     "O", "P", "Q", "R", "S", "T", "U", "V", "W", "X", "Y", "Z"}

\* \w
IsWord(c) == c \in Letters \cup Digits \cup {"_"}

\* the end of the match of /(\w+)\? starting at the "/" at position i (the
\* position of the "?"), 0 when there is none
RECURSIVE WordRunEnd(_, _)
WordRunEnd(t, j) ==
    IF j <= Len(t) /\ IsWord(t[j]) THEN WordRunEnd(t, j + 1) ELSE j

IdAt(t, i) ==
    IF t[i] = "/"
    THEN LET e == WordRunEnd(t, i + 1)
         IN  IF e > i + 1 /\ e <= Len(t) /\ t[e] = "?" THEN e ELSE 0
    ELSE 0

\* line 105: re.search(r"/(\w+)\?", note_url), as the group or None
SearchId(t) ==
    LET i == FirstPos({k \in 1..Len(t) : IdAt(t, k) > 0})
    IN  IF i = 0 THEN None ELSE PyStr(Slice(t, i + 1, IdAt(t, i) - 1))

\* the comment rows of a page: body, date text, like label; the first row is
\* rendered when the page loads, the others as the panel is scrolled
Row(body, datetext, like) == [content |-> body, date |-> datetext, like |-> like]

RowKinds ==
    { Row("c1", <<"2", "0", "2", "4", "-", "0", "2", "-", "0", "2">>, <<"zan">>),
      Row("c2", <<"3", "tian", "qian">>, <<"1", "2">>) }

PostDates == { <<"2", "0", "2", "4", "-", "0", "1", "-", "1", "5">>, <<"zuo", "tian">> }

Urls == { base_url \o Href1, base_url \o <<"/", "e", "x", "p", "l", "o", "r", "e", "/", "6", "4", "a", "1">> }

\* lines 135-136: the two locators, and the window around them
scroll_container == "div.note-scroller"
comment_container == ".comments-container"
Elements == {"window", scroll_container, comment_container}

Min(a, b) == IF a <= b THEN a ELSE b

\* the scroll range (scrollHeight - clientHeight) of div.note-scroller, which
\* holds the note and, below it, the comment rows
ScrollRange(pg) == 1200 + 300 * Len(pg.rows)

\* the element of the page that is not there ("none": all are): the img of a
\* slide, a tag, span.date, a counter.  Reading it times out and raises.
Absents == {"none", "img", "tag", "date", "count"}

Page(ok, slides, datetext, banner, rows, absent) ==
    [content_ok |-> ok, slides |-> slides, content |-> "body",
     tags |-> <<"#t1", "#t2">>, date |-> datetext, like |-> "10",
     collect |-> "1.5w", comment |-> "7", no_comments |-> banner, rows |-> rows,
     absent |-> absent]

NoRet ==
    [id |-> <<>>, media |-> <<>>, content |-> "", like_count |-> "",
     collect_count |-> "", comment_count |-> "", comments |-> <<>>,
     tag |-> <<>>, publish_date |-> None]

InitItemVars ==
    /\ \E ok \in BOOLEAN, sl \in SeqsUpTo({"u1", "u2"}, MaxSlides),
          d \in PostDates, banner \in BOOLEAN, rs \in SeqsUpTo(RowKinds, MaxRows),
          a \in Absents :
          /\ ok = FALSE => (sl = <<>> /\ rs = <<>> /\ banner = FALSE /\ a = "none")
          /\ a = "img" => sl # <<>>
          /\ page = Page(ok, sl, d, banner, rs, a)
    /\ note_url \in Urls
    /\ rendered = IF page.rows = <<>> THEN 0 ELSE 1
    /\ note_id = <<>>
    /\ media_contents = <<>>
    /\ content = ""
    /\ tag_list = <<>>
    /\ date = None
    /\ like_count = ""
    /\ collect_count = ""
    /\ comment_count = ""
    /\ comments = <<>>
    /\ scroll_count = 0
    /\ scrollTop = [e \in Elements |-> 0]
    /\ end_visible = FALSE
    /\ end_checks = 0
    /\ scroll_actions = 0
    /\ state = "NOT_STARTED"
    /\ waits = 0
    /\ exc = "none"
    /\ ret = NoRet
    /\ pc = "goto"

IdleItemVars ==
    /\ page = Page(FALSE, <<>>, <<>>, FALSE, <<>>, "none")
    /\ note_url = <<>>
    /\ rendered = 0
    /\ note_id = <<>>
    /\ media_contents = <<>>
    /\ content = ""
    /\ tag_list = <<>>
    /\ date = None
    /\ like_count = ""
    /\ collect_count = ""
    /\ comment_count = ""
    /\ comments = <<>>
    /\ scroll_count = 0
    /\ scrollTop = [e \in Elements |-> 0]
    /\ end_visible = FALSE
    /\ end_checks = 0
    /\ scroll_actions = 0
    /\ state = "NOT_STARTED"
    /\ waits = 0
    /\ exc = "none"
    /\ ret = NoRet
    /\ pc = "idle"


Raise(e) ==
    /\ exc' = e
    /\ pc' = "raised"

\* lines 100-101: navigate and wait for div.note-content
Goto ==
    /\ pc = "goto"
    /\ IF page.content_ok
       THEN pc' = "id" /\ exc' = exc
       ELSE Raise("TimeoutError")
    /\ UNCHANGED <<page, note_url, rendered, note_id, media_contents, content,
                   tag_list, date, like_count, collect_count, comment_count,
                   comments, scroll_count, scrollTop, end_visible, end_checks,
                   scroll_actions, ret>>
    /\ UNCHANGED <<state, waits>>
    /\ UNCHANGED <<dateVars, searchVars, batchVars, otherVars>>

\* lines 104-105: .group(1) of no match raises AttributeError
ParseId ==
    /\ pc = "id"
    /\ IF SearchId(note_url) = None
       THEN Raise("AttributeError") /\ note_id' = note_id
       ELSE note_id' = SearchId(note_url).s /\ pc' = "media" /\ exc' = exc
    /\ UNCHANGED <<page, note_url, rendered, media_contents, content,
                   tag_list, date, like_count, collect_count, comment_count,
                   comments, scroll_count, scrollTop, end_visible, end_checks,
                   scroll_actions, ret>>
    /\ UNCHANGED <<state, waits>>
    /\ UNCHANGED <<dateVars, searchVars, batchVars, otherVars>>

Range(f) == {f[i] : i \in DOMAIN f}

\* list(set(xs)): the elements of xs once each, in any order
ListsOfSet(xs) ==
    {m \in [1..Cardinality(Range(xs)) -> Range(xs)] : Range(m) = Range(xs)}

ListsKeepingAll(xs) == {xs}

\* lines 108-113
MediaLists(slides) == ListsOfSet(slides)

CollectMedia ==
    /\ pc = "media"
    /\ IF page.absent = "img" /\ page.slides # <<>>
       THEN Raise("TimeoutError") /\ media_contents' = media_contents
       ELSE /\ media_contents' \in MediaLists(page.slides)
            /\ pc' = "content"
            /\ exc' = exc
    /\ UNCHANGED <<page, note_url, rendered, note_id, content,
                   tag_list, date, like_count, collect_count, comment_count,
                   comments, scroll_count, scrollTop, end_visible, end_checks,
                   scroll_actions, ret>>
    /\ UNCHANGED <<state, waits>>
    /\ UNCHANGED <<dateVars, searchVars, batchVars, otherVars>>

\* lines 116-122: the body text and the tags
ReadContent ==
    /\ pc = "content"
    /\ content' = page.content
    /\ IF page.absent = "tag"
       THEN Raise("TimeoutError") /\ tag_list' = tag_list
       ELSE tag_list' = page.tags /\ pc' = "date" /\ exc' = exc
    /\ UNCHANGED <<page, note_url, rendered, note_id, media_contents,
                   date, like_count, collect_count, comment_count,
                   comments, scroll_count, scrollTop, end_visible, end_checks,
                   scroll_actions, ret>>
    /\ UNCHANGED <<state, waits>>
    /\ UNCHANGED <<dateVars, searchVars, batchVars, otherVars>>

\* lines 125-130: the publish date and the three counters
ReadDate ==
    /\ pc = "date"
    /\ IF page.absent = "date"
       THEN /\ Raise("TimeoutError")
            /\ UNCHANGED <<date, like_count, collect_count, comment_count>>
       ELSE /\ date' = extract_date(now, page.date)
            /\ IF page.absent = "count"
               THEN /\ Raise("TimeoutError")
                    /\ UNCHANGED <<like_count, collect_count, comment_count>>
               ELSE /\ like_count' = page.like
                    /\ collect_count' = page.collect
                    /\ comment_count' = page.comment
                    /\ pc' = "no_comment"
                    /\ exc' = exc
    /\ UNCHANGED <<page, note_url, rendered, note_id, media_contents, content,
                   tag_list, comments, scroll_count, scrollTop, end_visible,
                   end_checks, scroll_actions, ret>>
    /\ UNCHANGED <<state, waits>>
    /\ UNCHANGED <<dateVars, searchVars, batchVars, otherVars>>

\* line 139, where the banner test leads: "return" or "loop"
AfterBannerAlwaysLoop(banner) == "loop"

AfterBanner(banner) == IF banner THEN "return" ELSE "loop"

\* lines 133-148
CheckNoComment ==
    /\ pc = "no_comment"
    /\ comments' = <<>>
    /\ scroll_count' = 0
    /\ pc' = AfterBanner(page.no_comments)
    /\ state' = IF page.no_comments THEN "NO_COMMENTS" ELSE "SCROLLING"
    /\ UNCHANGED <<page, note_url, rendered, note_id, media_contents, content,
                   tag_list, date, like_count, collect_count, comment_count,
                   scrollTop, end_visible, end_checks, scroll_actions, exc, ret>>
    /\ UNCHANGED waits
    /\ UNCHANGED <<dateVars, searchVars, batchVars, otherVars>>

\* line 156
CeilingReachedLate(n) == n > max_scroll_times

CeilingReached(n) == n >= max_scroll_times

LoopExitCeilingFirst(visible, n) ==
    IF CeilingReached(n) THEN "MAX_SCROLL_REACHED"
    ELSE IF visible THEN "REACHED_END"
    ELSE "SCROLLING"

LoopExitIgnoringMarker(visible, n) ==
    IF CeilingReached(n) THEN "MAX_SCROLL_REACHED" ELSE "SCROLLING"

\* lines 152-158: the end marker is looked at first (log line 153), then the
\* ceiling (log line 157)
LoopExit(visible, n) ==
    IF visible THEN "REACHED_END"
    ELSE IF CeilingReached(n) THEN "MAX_SCROLL_REACHED"
    ELSE "SCROLLING"

\* lines 150-158
LoopCheck ==
    /\ pc = "loop"
    /\ \E visible \in BOOLEAN :
          /\ end_visible' = visible
          /\ state' = LoopExit(visible, scroll_count)
    /\ pc' = IF state' = "SCROLLING" THEN "scroll" ELSE "expect"
    /\ end_checks' = end_checks + 1
    /\ UNCHANGED <<page, note_url, rendered, note_id, media_contents, content,
                   tag_list, date, like_count, collect_count, comment_count,
                   comments, scroll_count, scrollTop, scroll_actions, exc, ret>>
    /\ UNCHANGED waits
    /\ UNCHANGED <<dateVars, searchVars, batchVars, otherVars>>

\* lines 161-168: element.scrollTop += step on scroll_container; the browser
\* keeps scrollTop within the element's scroll range
Scroll ==
    /\ pc = "scroll"
    /\ scrollTop' = [scrollTop EXCEPT ![scroll_container] =
                        Min(@ + scroll_step, ScrollRange(page))]
    /\ scroll_actions' = scroll_actions + 1
    /\ pc' = "sleep"
    /\ UNCHANGED <<page, note_url, rendered, note_id, media_contents, content,
                   tag_list, date, like_count, collect_count, comment_count,
                   comments, scroll_count, end_visible, end_checks, exc, ret>>
    /\ UNCHANGED <<state, waits>>
    /\ UNCHANGED <<dateVars, searchVars, batchVars, otherVars>>

\* lines 171-172: during the pause the panel may render one more row
Sleep ==
    /\ pc = "sleep"
    /\ scroll_count' = scroll_count + 1
    /\ rendered' \in {rendered, IF rendered < Len(page.rows) THEN rendered + 1 ELSE rendered}
    /\ pc' = "loop"
    /\ UNCHANGED <<page, note_url, note_id, media_contents, content,
                   tag_list, date, like_count, collect_count, comment_count,
                   comments, scrollTop, end_visible, end_checks,
                   scroll_actions, exc, ret>>
    /\ UNCHANGED <<state, waits>>
    /\ UNCHANGED <<dateVars, searchVars, batchVars, otherVars>>

\* line 174: expect(...).to_be_visible(...) of the async API makes a
\* coroutine; it is not awaited, so the wait never runs (waits, the number
\* of waits on the end marker that ran, stays as it is) and nothing is raised
Expect ==
    /\ pc = "expect"
    /\ waits' = waits
    /\ pc' = "extract"
    /\ UNCHANGED <<page, note_url, rendered, note_id, media_contents, content,
                   tag_list, date, like_count, collect_count, comment_count,
                   comments, scroll_count, scrollTop, end_visible, end_checks,
                   scroll_actions, exc, ret>>
    /\ UNCHANGED state
    /\ UNCHANGED <<dateVars, searchVars, batchVars, otherVars>>

Zan == <<"zan">>

LikeAlwaysRaw(label) == PyStr(label)

\* lines 183-185
CommentLike(label) == IF label = Zan THEN PyInt(0) ELSE PyStr(label)

\* lines 181-191: one row, as the comment appended
Comment(t, row) ==
    [date |-> extract_date(t, row.date),
     like_count |-> CommentLike(row.like),
     comment_content |-> row.content]

ExtractRowsNewestFirst(t, rows, d, cs) ==
    IF rows = <<>> THEN <<d, cs>>
    ELSE <<extract_date(t, rows[Len(rows)].date),
           cs \o [i \in 1..Len(rows) |-> Comment(t, rows[Len(rows) + 1 - i])]>>

\* lines 180-191 over the rows, as <<date, comments>>: line 182 assigns the
\* same local name date that line 126 assigned
RECURSIVE ExtractRows(_, _, _, _)
ExtractRows(t, rows, d, cs) ==
    IF rows = <<>> THEN <<d, cs>>
    ELSE ExtractRows(t, Tail(rows), extract_date(t, Head(rows).date),
                     Append(cs, Comment(t, Head(rows))))

\* lines 177-191
Extract ==
    /\ pc = "extract"
    /\ LET out == ExtractRows(now, SubSeq(page.rows, 1, rendered), date, comments)
       IN  /\ date' = out[1]
           /\ comments' = out[2]
    /\ pc' = "return"
    /\ UNCHANGED <<page, note_url, rendered, note_id, media_contents, content,
                   tag_list, like_count, collect_count, comment_count,
                   scroll_count, scrollTop, end_visible, end_checks,
                   scroll_actions, exc, ret>>
    /\ UNCHANGED <<state, waits>>
    /\ UNCHANGED <<dateVars, searchVars, batchVars, otherVars>>

\* lines 193-203
Return ==
    /\ pc = "return"
    /\ ret' = [id |-> note_id, media |-> media_contents, content |-> content,
               like_count |-> like_count, collect_count |-> collect_count,
               comment_count |-> comment_count, comments |-> comments,
               tag |-> tag_list, publish_date |-> date]
    /\ pc' = "returned"
    /\ UNCHANGED <<page, note_url, rendered, note_id, media_contents, content,
                   tag_list, date, like_count, collect_count, comment_count,
                   comments, scroll_count, scrollTop, end_visible, end_checks,
                   scroll_actions, exc>>
    /\ UNCHANGED <<state, waits>>
    /\ UNCHANGED <<dateVars, searchVars, batchVars, otherVars>>

-----------------------------------------------------------------------------
(* The batch driver use_xhs_crawler of crawler/test_xhs.py, run as the      *)
(* script does: XHSCrawler.start with ManualChromeConnector.connect, then   *)
(* search, then catch_item_content on every result, the file, and close.    *)
(* The search and each detail visit run the actions above.                  *)

MaxBatchCards == 2

envVars == <<port, ws, attach, site, save_file>>
connVars == <<crawler_connector, crawler_context, crawler_page, browser,
              playwright, ws_url>>
loopVars == <<res, datas, bi, file, started, visited, pauses>>

\* what listens on the debug port: nothing, a process that answers
\* /json/version with another status than 200, one that does not answer
\* HTTP at all, or Chrome
PortStates == {"closed", "other", "mute", "chrome"}
\* what the second /json/version request gives: the webSocketDebuggerUrl, a
\* 200 answer without that field, or an error
WsStates == {"url", "missing", "error"}
\* what connect_over_cdp does: connects, raises, or gives a browser that is
\* not connected
AttachStates == {"ok", "fail", "disconnected"}

\* the detail pages behind the links of the cards
NoCommentsPage ==
    Page(TRUE, <<"u1">>, <<"zuo", "tian">>, TRUE, <<>>, "none")
CommentsPage ==
    Page(TRUE, <<"u1", "u1">>, <<"zuo", "tian">>, FALSE,
         <<Row("c2", <<"3", "tian", "qian">>, <<"1", "2">>)>>, "none")
BrokenPage ==
    Page(TRUE, <<>>, <<>>, FALSE, <<>>, "date")

PageKinds == {NoCommentsPage, CommentsPage, BrokenPage}

BatchCardKinds == {GoodCard1, GoodCard2, BundleCard}

NoPage == Page(FALSE, <<>>, <<>>, FALSE, <<>>, "none")

InitBatchVars ==
    /\ port \in PortStates
    /\ ws \in WsStates
    /\ attach \in AttachStates
    /\ port # "chrome" => (ws = "url" /\ attach = "ok")
    /\ ws # "url" => attach = "ok"
    /\ site \in [{base_url \o Href1, base_url \o Href2} -> PageKinds]
    /\ save_file \in BOOLEAN
    /\ crawler_connector = "None"
    /\ crawler_context = "None"
    /\ crawler_page = "None"
    /\ browser = "None"
    /\ playwright = "None"
    /\ ws_url = "None"
    /\ res = <<>>
    /\ datas = <<>>
    /\ bi = 0
    /\ file = <<>>
    /\ started = FALSE
    /\ visited = 0
    /\ pauses = 0
    /\ closes = <<>>
    /\ close_calls = 0
    /\ bexc = "none"
    /\ bpc = "start"

IdleBatchVars ==
    /\ port = "chrome"
    /\ ws = "url"
    /\ attach = "ok"
    /\ site = [u \in {base_url \o Href1, base_url \o Href2} |-> NoPage]
    /\ save_file = FALSE
    /\ crawler_connector = "None"
    /\ crawler_context = "None"
    /\ crawler_page = "None"
    /\ browser = "None"
    /\ playwright = "None"
    /\ ws_url = "None"
    /\ res = <<>>
    /\ datas = <<>>
    /\ bi = 0
    /\ file = <<>>
    /\ started = FALSE
    /\ visited = 0
    /\ pauses = 0
    /\ closes = <<>>
    /\ close_calls = 0
    /\ bexc = "none"
    /\ bpc = "idle"

\* the result cards of the batch run; search is not yet called
InitBatchSearchVars ==
    /\ cards \in SeqsUpTo(BatchCardKinds, MaxBatchCards)
    /\ search_results = <<>>
    /\ filter_search_results = <<>>
    /\ results = <<>>
    /\ idx = 0
    /\ spc = "idle"

BRaise(e) ==
    /\ bexc' = e
    /\ bpc' = "raised"

\* test_xhs.py 15-16, xhs.py 44: the crawler and its connector are made
Start ==
    /\ bpc = "start"
    /\ crawler_connector' = "ManualChromeConnector"
    /\ bpc' = "check"
    /\ UNCHANGED <<crawler_context, crawler_page, browser, playwright, ws_url>>
    /\ UNCHANGED <<envVars, loopVars, closes, bexc>>
    /\ UNCHANGED close_calls
    /\ UNCHANGED <<dateVars, searchVars, itemVars, otherVars>>

check_chrome_running_tcp_only(p) == p # "closed"

\* browser_launcher.py 18-55: the port accepts the TCP connection and
\* /json/version answers 200; every other case, exceptions too, is False
check_chrome_running(p) == p = "chrome"

\* browser_launcher.py 90-95
ConnectCheck ==
    /\ bpc = "check"
    /\ IF check_chrome_running(port)
       THEN bpc' = "ws" /\ bexc' = bexc
       ELSE BRaise("RuntimeError: run chrome.exe --remote-debugging-port")
    /\ UNCHANGED <<envVars, connVars, loopVars, closes>>
    /\ UNCHANGED close_calls
    /\ UNCHANGED <<dateVars, searchVars, itemVars, otherVars>>

\* browser_launcher.py 98, 57-77: a 200 answer without the field falls off
\* the end of get_websocket_url, which then returns None
ConnectWsUrl ==
    /\ bpc = "ws"
    /\ IF ws = "error"
       THEN BRaise("RuntimeError: websocket url") /\ ws_url' = ws_url
       ELSE /\ ws_url' = IF ws = "url" THEN "ws://" ELSE "None"
            /\ bpc' = "attach"
            /\ bexc' = bexc
    /\ UNCHANGED <<crawler_connector, crawler_context, crawler_page, browser,
                   playwright>>
    /\ UNCHANGED <<envVars, loopVars, closes>>
    /\ UNCHANGED close_calls
    /\ UNCHANGED <<dateVars, searchVars, itemVars, otherVars>>

\* browser_launcher.py 103-109
ConnectAttach ==
    /\ bpc = "attach"
    /\ playwright' = "async_playwright"
    /\ IF ws_url = "None" \/ attach = "fail"
       THEN BRaise("Error: connect_over_cdp") /\ browser' = browser
       ELSE /\ browser' = "Browser"
            /\ IF attach = "disconnected"
               THEN BRaise("RuntimeError: CDP")
               ELSE bpc' = "context" /\ bexc' = bexc
    /\ UNCHANGED <<crawler_connector, crawler_context, crawler_page, ws_url>>
    /\ UNCHANGED <<envVars, loopVars, closes>>
    /\ UNCHANGED close_calls
    /\ UNCHANGED <<dateVars, searchVars, itemVars, otherVars>>

\* browser_launcher.py 114-134, xhs.py 47-49: the context, the new page, and
\* the navigation to base_url, which may fail
StartPage ==
    /\ bpc = "context"
    /\ crawler_context' = "BrowserContext"
    /\ crawler_page' = "Page"
    /\ \E loaded \in BOOLEAN :
          IF loaded
          THEN started' = TRUE /\ bpc' = "search" /\ bexc' = bexc
          ELSE started' = started /\ BRaise("TimeoutError: goto")
    /\ UNCHANGED <<crawler_connector, browser, playwright, ws_url>>
    /\ UNCHANGED <<res, datas, bi, file, visited, pauses>>
    /\ UNCHANGED <<envVars, closes>>
    /\ UNCHANGED close_calls
    /\ UNCHANGED <<dateVars, searchVars, itemVars, otherVars>>

\* test_xhs.py 17: search is called
BatchSearch ==
    /\ bpc = "search"
    /\ spc' = "submit"
    /\ bpc' = "searching"
    /\ UNCHANGED <<cards, search_results, filter_search_results, results, idx>>
    /\ UNCHANGED <<envVars, connVars, loopVars, closes, bexc>>
    /\ UNCHANGED close_calls
    /\ UNCHANGED <<dateVars, itemVars, otherVars>>

\* test_xhs.py 17-19: search returns res, or its exception goes on up
SearchDone ==
    /\ bpc = "searching"
    /\ spc \in {"returned", "raised"}
    /\ IF spc = "returned"
       THEN res' = results /\ bpc' = "loop" /\ bexc' = bexc
       ELSE res' = res /\ BRaise("TimeoutError")
    /\ datas' = <<>>
    /\ UNCHANGED <<bi, file, started, visited, pauses>>
    /\ UNCHANGED <<envVars, connVars, closes>>
    /\ UNCHANGED close_calls
    /\ UNCHANGED <<dateVars, searchVars, itemVars, otherVars>>

\* the frame of a call of catch_item_content: the page behind url when it is
\* entered (at = "goto"), nothing once it is left (at = "idle")
ItemFrame(url, pg, at) ==
    /\ page' = pg
    /\ note_url' = url
    /\ rendered' = IF pg.rows = <<>> THEN 0 ELSE 1
    /\ note_id' = <<>>
    /\ media_contents' = <<>>
    /\ content' = ""
    /\ tag_list' = <<>>
    /\ date' = None
    /\ like_count' = ""
    /\ collect_count' = ""
    /\ comment_count' = ""
    /\ comments' = <<>>
    /\ scroll_count' = 0
    /\ scrollTop' = [e \in Elements |-> 0]
    /\ end_visible' = FALSE
    /\ end_checks' = 0
    /\ scroll_actions' = 0
    /\ state' = "NOT_STARTED"
    /\ waits' = 0
    /\ exc' = "none"
    /\ ret' = NoRet
    /\ pc' = at

\* test_xhs.py 20-21: the next result's page is visited, or the loop ends
BatchVisit ==
    /\ bpc = "loop"
    /\ IF bi < Len(res)
       THEN /\ ItemFrame(res[bi + 1].url, site[res[bi + 1].url], "goto")
            /\ visited' = visited + 1
            /\ bpc' = "visiting"
       ELSE /\ UNCHANGED itemVars
            /\ visited' = visited
            /\ bpc' = "save"
    /\ UNCHANGED <<res, datas, bi, file, started, pauses>>
    /\ UNCHANGED <<envVars, connVars, closes, bexc>>
    /\ UNCHANGED close_calls
    /\ UNCHANGED <<dateVars, searchVars, otherVars>>

\* where an exception of the visit leads: test_xhs.py 20-24 has no try, it
\* leaves use_xhs_crawler
AfterVisitError == "raised"

\* test_xhs.py 21-22: the call returns and the record is appended, or the
\* call raises: line 21 is in no try, the exception leaves use_xhs_crawler
VisitDone ==
    /\ bpc = "visiting"
    /\ pc \in {"returned", "raised"}
    /\ IF pc = "returned"
       THEN datas' = Append(datas, ret) /\ bpc' = "pause" /\ bexc' = bexc
       ELSE datas' = datas /\ bpc' = AfterVisitError /\ bexc' = exc
    /\ ItemFrame(<<>>, NoPage, "idle")
    /\ UNCHANGED <<res, bi, file, started, visited, pauses>>
    /\ UNCHANGED <<envVars, connVars, closes>>
    /\ UNCHANGED close_calls
    /\ UNCHANGED <<dateVars, searchVars, otherVars>>

\* test_xhs.py 24: asyncio.sleep(2), then the next turn of the loop
BatchPause ==
    /\ bpc = "pause"
    /\ pauses' = pauses + 1
    /\ bi' = bi + 1
    /\ bpc' = "loop"
    /\ UNCHANGED <<res, datas, file, started, visited>>
    /\ UNCHANGED <<envVars, connVars, closes, bexc>>
    /\ UNCHANGED close_calls
    /\ UNCHANGED <<dateVars, searchVars, itemVars, otherVars>>

\* json.dumps(data, ensure_ascii=False) + "\n"
JsonLine(data) == [json |-> data, end |-> "\n"]

\* test_xhs.py 27-29: one line per record of datas, in order
Lines(ds) == [i \in 1..Len(ds) |-> JsonLine(ds[i])]

\* test_xhs.py 26-29
BatchSave ==
    /\ bpc = "save"
    /\ file' = IF save_file THEN Lines(datas) ELSE file
    /\ bpc' = "close_page"
    /\ UNCHANGED <<res, datas, bi, started, visited, pauses>>
    /\ UNCHANGED <<envVars, connVars, closes, bexc>>
    /\ UNCHANGED close_calls
    /\ UNCHANGED <<dateVars, searchVars, itemVars, otherVars>>

CloseStep(what, failed) == [what |-> what, failed |-> failed]

AfterCloseErrorUnhandled(failed, next) == IF failed THEN "raised" ELSE next

\* xhs.py 211-212, 218-219, browser_launcher.py 144-145, 155-156: the
\* exception of a close is caught and logged
AfterCloseError(failed, next) == next

ClearedUnlessFailed(field, failed) == IF failed THEN field ELSE "None"

\* browser_launcher.py 146-147, 157-158: finally: the field is set to None
Cleared(field, failed) == "None"

MaxCloseCalls == 2

\* ManualChromeConnector.close is called on its own (browser_launcher.py
\* 136-138): on a connector never connected, after connect raised, after it
\* attached, or after an earlier close
CallClose ==
    /\ bpc \in {"check", "raised", "context", "done"}
    /\ close_calls < MaxCloseCalls
    /\ close_calls' = close_calls + 1
    /\ bpc' = "close_browser"
    /\ UNCHANGED <<envVars, connVars, loopVars, closes, bexc>>
    /\ UNCHANGED <<dateVars, searchVars, itemVars, otherVars>>

\* xhs.py 207-212: page.close() in try/except
ClosePage ==
    /\ bpc = "close_page"
    /\ close_calls' = IF crawler_connector # "None" THEN close_calls + 1
                      ELSE close_calls
    /\ IF crawler_page # "None"
       THEN \E failed \in BOOLEAN :
               /\ closes' = Append(closes, CloseStep("page", failed))
               /\ bpc' = AfterCloseError(failed, "close_browser")
       ELSE closes' = closes /\ bpc' = "close_browser"
    /\ UNCHANGED <<envVars, connVars, loopVars, bexc>>
    /\ UNCHANGED <<dateVars, searchVars, itemVars, otherVars>>

\* xhs.py 214-216, browser_launcher.py 140-147: browser.close() within 5 s
CloseBrowser ==
    /\ bpc = "close_browser"
    /\ IF crawler_connector # "None" /\ browser # "None"
       THEN \E failed \in BOOLEAN :
               /\ closes' = Append(closes, CloseStep("browser", failed))
               /\ bpc' = AfterCloseError(failed, "close_playwright")
               /\ browser' = Cleared(browser, failed)
       ELSE closes' = closes /\ bpc' = "close_playwright" /\ browser' = browser
    /\ UNCHANGED <<crawler_connector, crawler_context, crawler_page,
                   playwright, ws_url>>
    /\ UNCHANGED <<envVars, loopVars, bexc>>
    /\ UNCHANGED close_calls
    /\ UNCHANGED <<dateVars, searchVars, itemVars, otherVars>>

\* browser_launcher.py 149-158, test_xhs.py 30: the Playwright exit within
\* 5 s, and use_xhs_crawler returns
ClosePlaywright ==
    /\ bpc = "close_playwright"
    /\ IF crawler_connector # "None" /\ playwright # "None"
       THEN \E failed \in BOOLEAN :
               /\ closes' = Append(closes, CloseStep("playwright", failed))
               /\ bpc' = AfterCloseError(failed, "done")
               /\ playwright' = Cleared(playwright, failed)
       ELSE closes' = closes /\ bpc' = "done" /\ playwright' = playwright
    /\ UNCHANGED <<crawler_connector, crawler_context, crawler_page,
                   browser, ws_url>>
    /\ UNCHANGED <<envVars, loopVars, bexc>>
    /\ UNCHANGED close_calls
    /\ UNCHANGED <<dateVars, searchVars, itemVars, otherVars>>

-----------------------------------------------------------------------------
(* generate_event_stream of agent-front/main.py: the SSE events made from   *)
(* the token stream of the agent.                                           *)

MaxTokens == 3

\* the content blocks of an AIMessageChunk; args is the tool_args of a
\* tool_call_chunk: a dict, a string json.loads reads, or one it does not
Block(type, args) == [type |-> type, args |-> args]
BlockKinds ==
    {Block("reasoning", "none"), Block("text", "none"),
     Block("tool_call_chunk", "dict"), Block("tool_call_chunk", "str"),
     Block("tool_call_chunk", "bad str"), Block("image", "none")}

Token(type, blocks) == [type |-> type, content_blocks |-> blocks]
TokenKinds ==
    {Token("AIMessageChunk", <<b>>) : b \in BlockKinds}
        \cup {Token("AIMessageChunk", <<>>),
              Token("AIMessageChunk",
                    <<Block("tool_call_chunk", "str"),
                      Block("tool_call_chunk", "bad str")>>),
              Token("AIMessageChunk",
                    <<Block("tool_call_chunk", "dict"),
                      Block("tool_call_chunk", "str")>>),
              Token("tool", <<>>), Token("human", <<>>)}

\* the ids made with uuid4: the n-th one, with its prefix
Id(prefix, n) == [prefix |-> prefix, n |-> n]
NoId == Id("", 0)

\* lines 118-120: the event that format_sse writes
Event(type, id) == [type |-> type, id |-> id]

InitSseVars ==
    /\ tokens \in SeqsUpTo(TokenKinds, MaxTokens)
    /\ ti = 0
    /\ events = <<>>
    /\ tool_calls_made = <<>>
    /\ thinking_id = NoId
    /\ uuids = 0
    /\ epc = "start"

IdleSseVars ==
    /\ tokens = <<>>
    /\ ti = 0
    /\ events = <<>>
    /\ tool_calls_made = <<>>
    /\ thinking_id = NoId
    /\ uuids = 0
    /\ epc = "idle"

\* lines 125-133
SseStart ==
    /\ epc = "start"
    /\ uuids' = uuids + 1
    /\ thinking_id' = Id("think_", uuids')
    /\ events' = <<Event("thinking_start", thinking_id')>>
    /\ tool_calls_made' = <<>>
    /\ epc' = "stream"
    /\ UNCHANGED <<tokens, ti>>
    /\ UNCHANGED <<crawlerVars, lessonVars, asrVars>>

\* the events, the ids made and the id counter while a token is handled;
\* raised: an exception has left the for loop
Locals(evs, made, n, raised) ==
    [events |-> evs, made |-> made, uuids |-> n, raised |-> raised]

\* lines 145-176: one content block
HandleBlock(b, st) ==
    IF b.type = "reasoning"
    THEN [st EXCEPT !.events = Append(@, Event("thinking_delta", thinking_id))]
    ELSE IF b.type = "tool_call_chunk"
    THEN \* line 161 appends the id before line 167 reads the arguments
         IF b.args = "bad str"
         THEN [st EXCEPT !.made = Append(@, Id("tool_", st.uuids + 1)),
                         !.uuids = @ + 1,
                         !.raised = TRUE]
         ELSE [st EXCEPT !.made = Append(@, Id("tool_", st.uuids + 1)),
                         !.uuids = @ + 1,
                         !.events = Append(@, Event("tool_call",
                                                    Id("tool_", st.uuids + 1)))]
    ELSE IF b.type = "text"
    THEN [st EXCEPT !.events = Append(@, Event("text_delta", NoId))]
    ELSE st

RECURSIVE HandleBlocks(_, _)
\* lines 142-143: the blocks in order, until one raises
HandleBlocks(blocks, st) ==
    IF blocks = <<>> \/ st.raised THEN st
    ELSE HandleBlocks(Tail(blocks), HandleBlock(Head(blocks), st))

FirstMade(made) == made[1]

\* line 181: tool_calls_made[-1]
LastMade(made) == made[Len(made)]

\* lines 141-187: one token of the stream
HandleToken(tok, st) ==
    IF tok.type = "AIMessageChunk"
    THEN HandleBlocks(tok.content_blocks, st)
    ELSE IF tok.type = "tool" /\ st.made # <<>>
    THEN [st EXCEPT !.events = Append(@, Event("tool_result", LastMade(st.made)))]
    ELSE st

AfterStreamErrorResuming == "stream"

\* lines 189-193: the except clause is outside the for loop, so the loop is
\* over once an exception is caught
AfterStreamError == "end"

\* lines 137-193: the next token is handled; an exception of the handling
\* goes to the except clause, which writes the error event
SseToken ==
    /\ epc = "stream"
    /\ ti < Len(tokens)
    /\ LET st == HandleToken(tokens[ti + 1],
                             Locals(events, tool_calls_made, uuids, FALSE))
       IN  /\ events' = IF st.raised
                        THEN Append(st.events, Event("error", NoId))
                        ELSE st.events
           /\ tool_calls_made' = st.made
           /\ uuids' = st.uuids
           /\ epc' = IF st.raised THEN AfterStreamError ELSE epc
    /\ ti' = ti + 1
    /\ UNCHANGED <<tokens, thinking_id>>
    /\ UNCHANGED <<crawlerVars, lessonVars, asrVars>>

\* lines 137-140, 189-193: agent.stream itself raises instead of giving its
\* next token (or its end); the generator of the agent is over then
SseStreamRaises ==
    /\ epc = "stream"
    /\ ti <= Len(tokens)
    /\ events' = Append(events, Event("error", NoId))
    /\ ti' = Len(tokens) + 1
    /\ epc' = AfterStreamError
    /\ UNCHANGED <<tokens, tool_calls_made, thinking_id, uuids>>
    /\ UNCHANGED <<crawlerVars, lessonVars, asrVars>>

\* line 137: the stream is exhausted
SseExhausted ==
    /\ epc = "stream"
    /\ ti >= Len(tokens)
    /\ epc' = "end"
    /\ UNCHANGED <<tokens, ti, events, tool_calls_made, thinking_id, uuids>>
    /\ UNCHANGED <<crawlerVars, lessonVars, asrVars>>

\* lines 196-199
SseEnd ==
    /\ epc = "end"
    /\ events' = Append(events, Event("thinking_end", thinking_id))
    /\ epc' = "done"
    /\ UNCHANGED <<tokens, ti, tool_calls_made, thinking_id, uuids>>
    /\ UNCHANGED <<crawlerVars, lessonVars, asrVars>>

\* lines 202-204
SseDone ==
    /\ epc = "done"
    /\ events' = Append(events, Event("done", NoId))
    /\ epc' = "finished"
    /\ UNCHANGED <<tokens, ti, tool_calls_made, thinking_id, uuids>>
    /\ UNCHANGED <<crawlerVars, lessonVars, asrVars>>

-----------------------------------------------------------------------------
(* generate_and_save_single_lesson and the loop of main of                  *)
(* work_jianao_generate/jiaoan_generate_workflow_main.py                    *)

MaxLessons == 2

Lessons == 1..MaxLessons

MaxRuns == 2

\* the two output files of a lesson: the JSON file is absent, complete, or
\* partial (json.dump raised after open(path, 'w') created it); the Word file
\* is absent or present
Files(json, word) == [json |-> json, word |-> word]
FileStates ==
    {Files(j, w) : j \in {"absent", "partial", "complete"},
                   w \in {"absent", "present"}}

\* what one call did: the branch taken, whether generate_lesson_plan_simple
\* was invoked, which files were written, whether the call returned (ok) or
\* raised; before: the files the call found; prior_ok: an earlier call for
\* the same lesson had returned
NoCall ==
    [branch |-> "none", generated |-> FALSE, wrote_json |-> FALSE,
     wrote_word |-> FALSE, ok |-> FALSE, before |-> Files("absent", "absent"),
     prior_ok |-> FALSE]

InitLessonVars ==
    /\ lesson_files \in [Lessons -> FileStates]
    /\ li = 1
    /\ runs = 1
    /\ call_log = [l \in Lessons |-> NoCall]
    /\ success_count = 0
    /\ lpc = "loop"

IdleLessonVars ==
    /\ lesson_files = [l \in Lessons |-> Files("absent", "absent")]
    /\ li = 0
    /\ runs = 0
    /\ call_log = [l \in Lessons |-> NoCall]
    /\ success_count = 0
    /\ lpc = "idle"

BranchRegenerating(json_exists, word_exists) ==
    IF json_exists /\ word_exists THEN "skip" ELSE "generate"

\* lines 235-247
Branch(json_exists, word_exists) ==
    IF json_exists /\ word_exists THEN "skip"
    ELSE IF json_exists /\ ~word_exists THEN "render"
    ELSE "generate"

\* lines 72-84: json.load reads a complete file and raises on a partial one
Loads(f) == f.json = "complete"

Outcome(f, branch, gen, wj, ww, ok) ==
    [files |-> f, branch |-> branch, generated |-> gen, wrote_json |-> wj,
     wrote_word |-> ww, ok |-> ok]

\* lines 231-260: the ways one call can go on the files f
Outcomes(f) ==
    LET b == Branch(f.json # "absent", f.word # "absent")
    IN  IF b = "skip"
        THEN \* line 240
             {Outcome(f, b, FALSE, FALSE, FALSE, Loads(f))}
        ELSE IF b = "render"
        THEN \* lines 244-245: the load, then the Word file or an exception
             IF Loads(f)
             THEN {Outcome([f EXCEPT !.word = "present"], b,
                           FALSE, FALSE, TRUE, TRUE),
                   Outcome(f, b, FALSE, FALSE, FALSE, FALSE)}
             ELSE {Outcome(f, b, FALSE, FALSE, FALSE, FALSE)}
        ELSE \* lines 250-257: the generation raises; or json.dump does, part
             \* of the file written; or the Word rendering does; or none
             {Outcome(f, b, TRUE, FALSE, FALSE, FALSE),
              Outcome([f EXCEPT !.json = "partial"], b,
                      TRUE, TRUE, FALSE, FALSE),
              Outcome([f EXCEPT !.json = "complete"], b,
                      TRUE, TRUE, FALSE, FALSE),
              Outcome([f EXCEPT !.json = "complete", !.word = "present"], b,
                      TRUE, TRUE, TRUE, TRUE)}

\* lines 287-299: generate_and_save_single_lesson on the next lesson, inside
\* the try of main: a call that returns is counted, an exception is printed
LessonCall ==
    /\ lpc = "loop"
    /\ li <= MaxLessons
    /\ \E o \in Outcomes(lesson_files[li]) :
          /\ lesson_files' = [lesson_files EXCEPT ![li] = o.files]
          /\ call_log' = [call_log EXCEPT ![li] =
                [branch |-> o.branch, generated |-> o.generated,
                 wrote_json |-> o.wrote_json, wrote_word |-> o.wrote_word,
                 ok |-> o.ok, before |-> lesson_files[li],
                 prior_ok |-> call_log[li].ok \/ call_log[li].prior_ok]]
          /\ success_count' = IF o.ok THEN success_count + 1 ELSE success_count
    /\ li' = li + 1
    /\ UNCHANGED <<runs, lpc>>
    /\ UNCHANGED <<crawlerVars, sseVars, asrVars>>

\* lines 287, 301-309: the loop is over and main returns
MainReturn ==
    /\ lpc = "loop"
    /\ li > MaxLessons
    /\ lpc' = "returned"
    /\ UNCHANGED <<lesson_files, li, runs, call_log, success_count>>
    /\ UNCHANGED <<crawlerVars, sseVars, asrVars>>

\* lines 263-287: main is run again on the same Excel file and output_dir
MainAgain ==
    /\ lpc = "returned"
    /\ runs < MaxRuns
    /\ runs' = runs + 1
    /\ li' = 1
    /\ success_count' = 0
    /\ lpc' = "loop"
    /\ UNCHANGED <<lesson_files, call_log>>
    /\ UNCHANGED <<crawlerVars, sseVars, asrVars>>

-----------------------------------------------------------------------------
(* SiliconFlowASR.transcribe_with_format of                                  *)
(* study_understand/src/tools/siliconflow_asr.py, with format_media_file of *)
(* study_understand/src/utils/media_formatter.py                            *)

\* a path of one directory: stem and suffix
Path(stem, suffix) == [stem |-> stem, suffix |-> suffix]
NoPath == Path("", "")

\* the media files transcribe_with_format is called on
Sources == {Path("x", ".wav"), Path("x", ".mp3"), Path("x", ".MP3")}

\* str.lower on the suffixes of Sources
Lower(suffix) == IF suffix = ".MP3" THEN ".mp3" ELSE suffix

\* media_formatter.py 41-46: the source with the suffix .mp3, or for an mp3
\* source its stem with _formatted
OutputPath(src) ==
    IF Lower(src.suffix) = ".mp3"
    THEN Path(src.stem \o "_formatted", ".mp3")
    ELSE Path(src.stem, ".mp3")

Paths == Sources \cup {OutputPath(src) : src \in Sources}

\* what a path holds: nothing, the media file to transcribe, some other file
\* of the user, the mp3 ffmpeg wrote, or what a failed ffmpeg left of it
Contents == {"absent", "source", "user", "converted", "partial"}

InitAsrVars ==
    /\ media_file_path \in Sources
    /\ keep_temp_file \in BOOLEAN
    /\ files \in [Paths -> {"absent", "source", "user"}]
    /\ \A p \in Paths :
          /\ files[p] = "source" => p = media_file_path
          /\ p = media_file_path => files[p] # "user"
    /\ files0 = files
    /\ formatted_audio = NoPath
    /\ apc = "format"

IdleAsrVars ==
    /\ media_file_path = Path("x", ".wav")
    /\ keep_temp_file = FALSE
    /\ files = [p \in Paths |-> "absent"]
    /\ files0 = [p \in Paths |-> "absent"]
    /\ formatted_audio = NoPath
    /\ apc = "idle"

\* siliconflow_asr.py 162, media_formatter.py 36-93: ffmpeg -y writes the
\* output path whatever is there; a missing source, a missing ffmpeg or a
\* failed conversion raises, out of transcribe_with_format too (line 162 is
\* before the try)
AsrFormat ==
    /\ apc = "format"
    /\ LET out == OutputPath(media_file_path)
       IN  IF files[media_file_path] = "absent"
           THEN apc' = "raised" /\ UNCHANGED <<files, formatted_audio>>
           ELSE \/ /\ files' = [files EXCEPT ![out] = "converted"]
                   /\ formatted_audio' = out
                   /\ apc' = "transcribe"
                \/ /\ files' \in {files, [files EXCEPT ![out] = "partial"]}
                   /\ formatted_audio' = formatted_audio
                   /\ apc' = "raised"
    /\ UNCHANGED <<media_file_path, keep_temp_file, files0>>
    /\ UNCHANGED <<crawlerVars, sseVars, lessonVars>>

\* siliconflow_asr.py 164-167, 60-138: transcribe returns the text or raises
AsrTranscribe ==
    /\ apc = "transcribe"
    /\ \E ok \in BOOLEAN :
          apc' = IF ok THEN "finally, then return" ELSE "finally, then raise"
    /\ UNCHANGED <<media_file_path, keep_temp_file, files, files0,
                   formatted_audio>>
    /\ UNCHANGED <<crawlerVars, sseVars, lessonVars>>

\* siliconflow_asr.py 168-175: the finally clause; a failure of os.remove is
\* logged
AsrFinally ==
    /\ apc \in {"finally, then return", "finally, then raise"}
    /\ IF ~keep_temp_file /\ files[formatted_audio] # "absent"
       THEN \E removed \in BOOLEAN :
               files' = IF removed
                        THEN [files EXCEPT ![formatted_audio] = "absent"]
                        ELSE files
       ELSE files' = files
    /\ apc' = IF apc = "finally, then return" THEN "returned" ELSE "raised"
    /\ UNCHANGED <<media_file_path, keep_temp_file, files0, formatted_audio>>
    /\ UNCHANGED <<crawlerVars, sseVars, lessonVars>>

IdleCrawler == IdleDateVars /\ IdleSearchVars /\ IdleItemVars /\ IdleBatchVars
IdleOther == IdleSseVars /\ IdleLessonVars /\ IdleAsrVars

-----------------------------------------------------------------------------
(* The specifications *)

InitDate ==
    InitDateVars /\ IdleSearchVars /\ IdleItemVars /\ IdleBatchVars
    /\ IdleOther
NextDate == CallExtractDate
SpecDate == InitDate /\ [][NextDate]_vars

InitSearch ==
    IdleDateVars /\ InitSearchVars /\ IdleItemVars /\ IdleBatchVars
    /\ IdleOther
NextSearch ==
    \/ SearchSubmit
    \/ SearchCollect
    \/ SearchFilter
    \/ SearchProcess
    \/ SearchReturn
SpecSearch == InitSearch /\ [][NextSearch]_vars

InitItem ==
    IdleDateVars /\ IdleSearchVars /\ InitItemVars /\ IdleBatchVars
    /\ IdleOther
NextItem ==
    \/ Goto
    \/ ParseId
    \/ CollectMedia
    \/ ReadContent
    \/ ReadDate
    \/ CheckNoComment
    \/ LoopCheck
    \/ Scroll
    \/ Sleep
    \/ Expect
    \/ Extract
    \/ Return
SpecItem == InitItem /\ [][NextItem]_vars

InitBatch ==
    IdleDateVars /\ InitBatchSearchVars /\ IdleItemVars /\ InitBatchVars
    /\ IdleOther
NextBatch ==
    \/ Start
    \/ ConnectCheck
    \/ ConnectWsUrl
    \/ ConnectAttach
    \/ StartPage
    \/ BatchSearch
    \/ NextSearch
    \/ SearchDone
    \/ BatchVisit
    \/ NextItem
    \/ VisitDone
    \/ BatchPause
    \/ BatchSave
    \/ ClosePage
    \/ CloseBrowser
    \/ ClosePlaywright
SpecBatch == InitBatch /\ [][NextBatch]_vars

InitConnector ==
    IdleDateVars /\ IdleSearchVars /\ IdleItemVars /\ InitBatchVars
    /\ IdleOther
NextConnector ==
    \/ Start
    \/ ConnectCheck
    \/ ConnectWsUrl
    \/ ConnectAttach
    \/ CallClose
    \/ CloseBrowser
    \/ ClosePlaywright
SpecConnector == InitConnector /\ [][NextConnector]_vars

InitSse == IdleCrawler /\ InitSseVars /\ IdleLessonVars /\ IdleAsrVars
NextSse ==
    \/ SseStart
    \/ SseToken
    \/ SseStreamRaises
    \/ SseExhausted
    \/ SseEnd
    \/ SseDone
SpecSse == InitSse /\ [][NextSse]_vars

InitLesson == IdleCrawler /\ IdleSseVars /\ InitLessonVars /\ IdleAsrVars
NextLesson ==
    \/ LessonCall
    \/ MainReturn
    \/ MainAgain
SpecLesson == InitLesson /\ [][NextLesson]_vars

InitAsr == IdleCrawler /\ IdleSseVars /\ IdleLessonVars /\ InitAsrVars
NextAsr ==
    \/ AsrFormat
    \/ AsrTranscribe
    \/ AsrFinally
SpecAsr == InitAsr /\ [][NextAsr]_vars

Init ==
    \/ InitDate \/ InitSearch \/ InitItem \/ InitBatch \/ InitConnector
    \/ InitSse \/ InitLesson \/ InitAsr
Next ==
    \/ NextDate \/ NextSearch \/ NextItem \/ NextBatch \/ NextConnector
    \/ NextSse \/ NextLesson \/ NextAsr
Spec == Init /\ [][Next]_vars

-----------------------------------------------------------------------------
(* The claims *)

AfterLoop == {"expect", "extract", "return", "returned"}

\* the comments read from the rows rendered now, one per row and in DOM order
CommentsAreRenderedRows(cs) ==
    /\ Len(cs) = rendered
    /\ \A i \in 1..Len(cs) : cs[i].comment_content = page.rows[i].content

\* C1: with no "no comments" banner and an end marker that no check saw, the
\* scroll loop is left after exactly 50 scroll actions (51 checks), never
\* fewer and never more, nothing is raised, and the record returned carries
\* the comment rows rendered at that moment.
C1_ScrollCeiling ==
    /\ scroll_actions <= 50
    /\ (pc \in AfterLoop /\ ~page.no_comments /\ ~end_visible) =>
          /\ scroll_actions = 50
          /\ scroll_count = 50
          /\ end_checks = 51
          /\ exc = "none"
    /\ (pc = "returned" /\ ~page.no_comments /\ ~end_visible) =>
          CommentsAreRenderedRows(ret.comments)

C1_Witness ==
    /\ pc = "returned"
    /\ ~page.no_comments
    /\ ~end_visible
    /\ scroll_actions = 50
    /\ Len(ret.comments) = 2

\* C2: when the "no comments" banner is visible the scroll loop is never
\* entered: no scroll action, no end-marker check, and the record returned
\* has an empty comments sequence.
C2_NoComments ==
    page.no_comments =>
        /\ pc \notin {"loop", "scroll", "sleep", "expect", "extract"}
        /\ scroll_actions = 0
        /\ end_checks = 0
        /\ comments = <<>>
        /\ pc = "returned" => ret.comments = <<>>

C2_Witness ==
    /\ pc = "returned"
    /\ page.no_comments
    /\ page.rows # <<>>
    /\ ret.comments = <<>>

\* C3: the publish_date of the record returned is the date normaliser applied
\* to the post's own publish-date text, whatever comments were extracted.
C3_PublishDate ==
    pc = "returned" => ret.publish_date = extract_date(now, page.date)

\* the patterns of the date normaliser, each on its own
HasAbsolute(t) == \E i \in 1..Len(t) : AbsAt(t, i)
HasDaysAgo(t) == \E i \in 1..Len(t) : IsDigit(t[i]) /\ LitAt(t, i + 1, TianQian)
HasHoursAgo(t) == \E i \in 1..Len(t) : IsDigit(t[i]) /\ LitAt(t, i + 1, XiaoShiQian)
HasJustNow(t) == \E i \in 1..Len(t) : LitAt(t, i, GangGang)
HasYesterday(t) == \E i \in 1..Len(t) : LitAt(t, i, ZuoTian)

Today == now \div SecondsPerDay

\* the day number d as YYYY-MM-DD
DayStr(d) ==
    LET c == CivilFromDays(d)
    IN  Pad4(c[1]) \o <<"-">> \o Pad2(c[2]) \o <<"-">> \o Pad2(c[3])

\* the number of the leftmost one- or two-digit group followed by 天前
LeftmostDays(t) ==
    LET i == CHOOSE k \in 1..Len(t) :
                 /\ DigitsThenAt(t, k, TianQian) > 0
                 /\ \A j \in 1..(k - 1) : DigitsThenAt(t, j, TianQian) = 0
    IN  IF IsDigit(t[i + 1]) THEN 10 * DigitVal(t[i]) + DigitVal(t[i + 1])
        ELSE DigitVal(t[i])

\* the substring that is the leftmost YYYY-MM-DD of t
LeftmostAbsolute(t) ==
    LET i == CHOOSE k \in 1..Len(t) :
                 AbsAt(t, k) /\ \A j \in 1..(k - 1) : ~AbsAt(t, j)
    IN  SubSeq(t, i, i + 9)

\* C4: the patterns are tried in the order absolute date, N天前, N小时前,
\* 刚刚, 昨天, and the first that matches decides: an absolute date in the
\* text is returned verbatim whatever relative words the text has, and
\* among the relative patterns the earliest in this order wins.
C4_PatternOrder ==
    dpc = "done" =>
        /\ HasAbsolute(text) => result = PyStr(LeftmostAbsolute(text))
        /\ (~HasAbsolute(text) /\ HasDaysAgo(text)) =>
              result = PyStr(DayStr(Today - LeftmostDays(text)))
        /\ (~HasAbsolute(text) /\ ~HasDaysAgo(text) /\ HasHoursAgo(text)) =>
              result = PyStr(DayStr(Today))
        /\ (~HasAbsolute(text) /\ ~HasDaysAgo(text) /\ ~HasHoursAgo(text)
              /\ HasJustNow(text)) =>
              result = PyStr(DayStr(Today))
        /\ (~HasAbsolute(text) /\ ~HasDaysAgo(text) /\ ~HasHoursAgo(text)
              /\ ~HasJustNow(text) /\ HasYesterday(text)) =>
              result = PyStr(DayStr(Today - 1))

\* 3天前 and 昨天 in one text: the days pattern decides
C4_Witness ==
    /\ dpc = "done"
    /\ text = <<"zuo", "tian", "3", "tian", "qian">>
    /\ now = 19884 * SecondsPerDay + 86399
    /\ result = PyStr(<<"2", "0", "2", "4", "-", "0", "6", "-", "0", "7">>)

\* C5: a text that matches none of the five patterns (上周, the empty text)
\* gives None; no call raises.
C5_UnrecognizedIsNone ==
    dpc = "done" =>
        /\ result.py \in {"None", "str"}
        /\ (~HasAbsolute(text) /\ ~HasDaysAgo(text) /\ ~HasHoursAgo(text)
              /\ ~HasJustNow(text) /\ ~HasYesterday(text)) => result = None

C5_Witness ==
    /\ dpc = "done"
    /\ text = <<"shang", "zhou">>
    /\ result = None

\* the text is the digits of a number followed by 天前 and nothing else
IsDaysAgoText(t) ==
    /\ Len(t) >= 3
    /\ LitAt(t, Len(t) - 1, TianQian)
    /\ \A i \in 1..(Len(t) - 2) : IsDigit(t[i])

\* C6: for every N, of any number of digits, the text "<N>天前" gives today
\* minus exactly N days.
C6_DaysAgoAnyN ==
    (dpc = "done" /\ IsDaysAgoText(text)) =>
        result = PyStr(DayStr(Today - int(SubSeq(text, 1, Len(text) - 2))))

\* C7: the media of the record returned has no URL twice, and has every
\* distinct slide URL.
C7_MediaNoDuplicates ==
    pc = "returned" =>
        /\ \A i, j \in 1..Len(ret.media) : ret.media[i] = ret.media[j] => i = j
        /\ Range(ret.media) = Range(page.slides)

C7_Witness ==
    /\ pc = "returned"
    /\ page.slides = <<"u1", "u1">>
    /\ ret.media = <<"u1">>

NonBundle(cs) == SelectSeq(cs, LAMBDA c : ~c.bundle)

CardReadable(c) ==
    /\ c.href.st = "ok" /\ c.href.v # <<>>
    /\ c.author.st = "ok"
    /\ c.time.st = "ok"

ItemOf(c) == [url |-> base_url \o c.href.v, author |-> c.author.v, date |-> c.time.v]

\* C8: search() leaves out exactly the cards with the bundle marker and keeps
\* the others in DOM order: when every other card is readable, the result
\* has one item per card without the marker, in the same order.
C8_BundleFilter ==
    (spc = "returned" /\ \A i \in 1..Len(cards) : cards[i].bundle \/ CardReadable(cards[i])) =>
        /\ Len(results) = Len(NonBundle(cards))
        /\ \A k \in 1..Len(results) : results[k] = ItemOf(NonBundle(cards)[k])

\* 10 cards, 3 of them bundles, give 7 items
C8_Witness ==
    /\ spc = "returned"
    /\ cards = TenCards
    /\ Cardinality({i \in 1..Len(cards) : cards[i].bundle}) = 3
    /\ Len(results) = 7

\* C9: a card whose link, author or date cannot be read is skipped and the
\* search does not abort: the call returns, the result has an item for every
\* other readable card without the bundle marker, in DOM order, and none for
\* the card that failed.
C9_SkipUnreadable ==
    /\ spc = "raised" => cards = <<>>
    /\ spc = "returned" =>
          LET good == SelectSeq(cards, LAMBDA c : ~c.bundle /\ CardReadable(c))
          IN  /\ Len(results) = Len(good)
              /\ \A k \in 1..Len(results) : results[k] = ItemOf(good[k])

C9_Witness ==
    /\ spc = "returned"
    /\ Len(cards) = 3
    /\ cards[1] = GoodCard1
    /\ ~cards[2].bundle /\ cards[2].href.st = "timeout"
    /\ cards[3] = GoodCard2
    /\ results = <<ItemOf(GoodCard1), ItemOf(GoodCard2)>>

\* C10: a comment whose like label is the placeholder 赞 has like_count the
\* integer 0; any other label is passed through unmodified, as a string.
C10_LikePlaceholder ==
    (pc = "returned" /\ ~page.no_comments) =>
        /\ Len(ret.comments) = rendered
        /\ \A i \in 1..Len(ret.comments) :
              /\ page.rows[i].like = <<"zan">> => ret.comments[i].like_count = PyInt(0)
              /\ page.rows[i].like # <<"zan">> =>
                    ret.comments[i].like_count = PyStr(page.rows[i].like)

C10_Witness ==
    /\ pc = "returned"
    /\ Len(ret.comments) = 2
    /\ ret.comments[1].like_count = PyInt(0)
    /\ ret.comments[2].like_count = PyStr(<<"1", "2">>)

\* C11: the like_count of every comment of every record returned is an
\* integer, never a string.
C11_LikeCountInteger ==
    pc = "returned" =>
        \A i \in 1..Len(ret.comments) : ret.comments[i].like_count.py = "int"

\* C12: a failure to read an optional field (the image of a slide, a tag,
\* the publish-date text, a counter) does not abort the extraction: when the
\* content wait succeeded and the id was parsed, nothing is raised.
C12_OptionalFieldsBestEffort ==
    (page.content_ok /\ SearchId(note_url) # None) => pc # "raised"

\* the run of use_xhs_crawler is over: it returned, or an exception left it
BatchOver == bpc \in {"done", "raised"}

\* C13: an error raised by the visit of one result's detail page does not
\* stop the batch: when the run is over, every result of the search has been
\* visited.
C13_BatchContinues ==
    (BatchOver /\ spc = "returned") => visited = Len(res)

\* C14: when the debug port is not reachable, or does not answer the version
\* endpoint with 200, connect raises the error that names the command to run
\* before anything is attached: the connector's browser and playwright and
\* the crawler's page and context stay None.
C14_FailFastBeforeAttach ==
    (port # "chrome" /\ bpc \notin {"start", "check"}) =>
        /\ bpc = "raised"
        /\ bexc = "RuntimeError: run chrome.exe --remote-debugging-port"
        /\ browser = "None"
        /\ playwright = "None"
        /\ crawler_page = "None"
        /\ crawler_context = "None"
        /\ ~started

C14_Witness ==
    /\ port = "other"
    /\ bpc = "raised"
    /\ crawler_connector = "ManualChromeConnector"

\* C15: close never raises: whichever of the three closes fail, the page,
\* the browser and Playwright are closed in that order, the run ends
\* normally, and the file written before is what it was.
C15_CloseNeverRaises ==
    /\ closes # <<>> => (bpc # "raised" /\ bexc = "none")
    /\ bpc = "done" =>
          /\ Len(closes) = 3
          /\ closes[1].what = "page"
          /\ closes[2].what = "browser"
          /\ closes[3].what = "playwright"
          /\ file = IF save_file THEN Lines(datas) ELSE <<>>

C15_Witness ==
    /\ bpc = "done"
    /\ Len(closes) = 3
    /\ closes[1].failed
    /\ closes[2].failed
    /\ closes[3].failed
    /\ Len(file) = 2

\* C16: a run for which start succeeded performs the close step before it is
\* over, also when search or a visit raises.
C16_CloseOnEveryPath ==
    (started /\ BatchOver) => closes # <<>>

\* C17: with an output path, the file has one line per result of the search,
\* line i being the record of result i.
C17_OneLinePerResult ==
    (save_file /\ BatchOver /\ spc = "returned") =>
        /\ Len(file) = Len(res)
        /\ \A i \in 1..Len(file) :
              PyStr(file[i].json.id) = SearchId(res[i].url)

Terminal == {"NO_COMMENTS", "REACHED_END", "MAX_SCROLL_REACHED"}

\* C18: the comment extraction ends in one of NO_COMMENTS, REACHED_END,
\* MAX_SCROLL_REACHED; an end marker seen by the check that left the loop
\* gives REACHED_END also after the 50th scroll, and MAX_SCROLL_REACHED is
\* reached only when none of the 51 checks saw the end marker.
C18_TerminalStates ==
    /\ pc \in {"expect", "extract", "return", "returned"} => state \in Terminal
    /\ state = "NO_COMMENTS" => page.no_comments /\ end_checks = 0
    /\ (state \in Terminal /\ ~page.no_comments /\ end_visible) => state = "REACHED_END"
    /\ state = "REACHED_END" => end_visible /\ end_checks = scroll_count + 1
    /\ state = "MAX_SCROLL_REACHED" =>
          ~end_visible /\ end_checks = 51 /\ scroll_count = 50

\* the end marker shows at the check made after the 50th scroll
C18_Witness ==
    /\ pc = "returned"
    /\ state = "REACHED_END"
    /\ scroll_actions = 50
    /\ end_checks = 51

\* C19: after REACHED_END and after MAX_SCROLL_REACHED alike, the comments of
\* the record returned are the rows rendered at that moment, one entry per
\* row, in DOM order.
C19_CommentsInDomOrder ==
    (pc = "returned" /\ state \in {"REACHED_END", "MAX_SCROLL_REACHED"}) =>
        /\ Len(ret.comments) = rendered
        /\ \A i \in 1..Len(ret.comments) :
              /\ ret.comments[i].comment_content = page.rows[i].content
              /\ ret.comments[i].date = extract_date(now, page.rows[i].date)

C19_Witness ==
    /\ pc = "returned"
    /\ state = "REACHED_END"
    /\ rendered = 2
    /\ page.rows[1].content = "c2"
    /\ page.rows[2].content = "c1"
    /\ ret.comments[1].comment_content = "c2"
    /\ ret.comments[2].comment_content = "c1"

\* C20: after the scroll loop exactly one bounded wait on the end marker is
\* run, and its failure does not abort the extraction.
C20_OneWaitAfterLoop ==
    (pc \in {"extract", "return", "returned"}
        /\ state \in {"REACHED_END", "MAX_SCROLL_REACHED"}) => waits = 1

\* C21: every scroll action adds exactly 500 to the scroll offset of the
\* comment panel, .comments-container, and no other scroll position changes:
\* the window's and every other element's offset stay where they were.
C21_ScrollsCommentPanelOnly ==
    /\ scrollTop[comment_container] = scroll_step * scroll_actions
    /\ \A e \in Elements \ {comment_container} : scrollTop[e] = 0

\* C22: a pause follows every detail-page visit, failed or not: whenever no
\* visit or pause is under way, as many pauses as visits have been made.
C22_PauseAfterEveryVisit ==
    bpc \notin {"visiting", "pause"} => pauses = visited

\* the positions of the character c in t
PositionsOf(t, c) == {k \in 1..Len(t) : t[k] = c}

\* the path of an absolute URL ends before the first "?"
PathEnd(t) ==
    IF PositionsOf(t, "?") = {} THEN Len(t)
    ELSE FirstPos(PositionsOf(t, "?")) - 1

\* the last segment of the path of the URL t: what follows its last "/"
LastPathSegment(t) ==
    LET slashes == {k \in PositionsOf(t, "/") : k <= PathEnd(t)}
        last == CHOOSE k \in slashes : \A j \in slashes : j <= k
    IN  Slice(t, last + 1, PathEnd(t))

\* C23: for every detail URL, with or without a query string, the id step
\* never raises and the id of the record is the last segment of the URL path.
C23_IdIsLastPathSegment ==
    /\ exc # "AttributeError"
    /\ pc = "returned" => ret.id = LastPathSegment(note_url)

C25_WsUrlOrRaise ==
    bpc = "attach" => ws_url # "None"

\* C26: after ManualChromeConnector.close returned, from whatever state it
\* was called and whichever close failed, browser and playwright are None; the
\* Playwright exit was attempted also after a browser.close that failed; and
\* a second close makes no close action.
C26_CloseClearsConnector ==
    /\ []((close_calls >= 1 /\ bpc = "done") =>
             /\ browser = "None"
             /\ playwright = "None"
             /\ \A i \in 1..Len(closes) :
                   closes[i].what = "browser" =>
                       \E j \in (i + 1)..Len(closes) :
                           closes[j].what = "playwright")
    /\ [][close_calls >= 2 => closes' = closes]_vars

C26_Witness ==
    /\ close_calls = 2
    /\ bpc = "done"
    /\ Len(closes) = 2
    /\ closes[1] = CloseStep("browser", TRUE)
    /\ closes[2] = CloseStep("playwright", TRUE)
    /\ browser = "None"
    /\ playwright = "None"

Deltas == {"thinking_delta", "tool_call", "tool_result", "text_delta"}

\* the positions of the events of one type
EventsOf(type) == {i \in 1..Len(events) : events[i].type = type}

\* C27: every stream is thinking_start, then deltas, then at most one error,
\* then thinking_end with the id of thinking_start, then done, also when the
\* agent stream raises: every state of the generator has written a prefix of
\* that shape, and the finished one all of it.
C27_StreamShape ==
    /\ epc = "start" => events = <<>>
    /\ epc \notin {"start", "idle"} =>
          /\ events[1] = Event("thinking_start", thinking_id)
          /\ EventsOf("thinking_start") = {1}
    /\ Cardinality(EventsOf("error")) <= 1
    /\ \A i \in 2..Len(events) :
          \/ events[i].type \in Deltas /\ \A j \in 2..i : events[j].type \in Deltas
          \/ events[i].type = "error" /\ \A j \in 2..(i - 1) : events[j].type \in Deltas
          \/ /\ events[i] = Event("thinking_end", thinking_id)
             /\ epc \in {"done", "finished"}
             /\ i = Len(events) - (IF epc = "finished" THEN 1 ELSE 0)
          \/ events[i].type = "done" /\ epc = "finished" /\ i = Len(events)
    /\ epc = "finished" =>
          /\ Len(events) >= 3
          /\ events[Len(events)].type = "done"
          /\ events[Len(events) - 1].type = "thinking_end"

C27_Witness ==
    /\ epc = "finished"
    /\ Len(events) = 6
    /\ events[2].type = "thinking_delta"
    /\ events[3].type = "tool_call"
    /\ events[4].type = "error"
    /\ ti = 2

\* the last tool_call event before position i, 0 if there is none
LastToolCallBefore(i) ==
    LET before == {j \in EventsOf("tool_call") : j < i}
    IN  IF before = {} THEN 0 ELSE CHOOSE j \in before : \A k \in before : k <= j

\* C28: every tool_result event carries the id of the last tool_call event
\* written before it; a tool message with no tool_call before it writes no
\* event.
C28_ToolResultIds ==
    \A i \in EventsOf("tool_result") :
        /\ LastToolCallBefore(i) # 0
        /\ events[i].id = events[LastToolCallBefore(i)].id

C28_Witness ==
    /\ epc = "finished"
    /\ Len(tokens) = 3
    /\ tokens[1].type = "tool"
    /\ Len(events) = 6
    /\ events[2].type = "tool_call"
    /\ events[3].type = "tool_call"
    /\ events[4].type = "tool_result"
    /\ events[4].id = events[3].id
    /\ events[2].id # events[3].id

\* C29: a call invokes the generation only if it found no JSON file; with a
\* JSON file and no Word file it renders the Word file from the stored JSON
\* and generates nothing; with both files it writes nothing; after a call that
\* returned both files exist; and a call that follows one that returned
\* generates nothing and writes nothing.
C29_Resumable ==
    \A l \in Lessons :
        LET c == call_log[l]
        IN  c.branch # "none" =>
              /\ c.generated => c.before.json = "absent"
              /\ (c.before.json # "absent" /\ c.before.word = "absent") =>
                    /\ ~c.generated /\ ~c.wrote_json
                    /\ c.ok => c.wrote_word
              /\ (c.before.json # "absent" /\ c.before.word # "absent") =>
                    ~c.generated /\ ~c.wrote_json /\ ~c.wrote_word
              /\ c.ok => (lesson_files[l].json # "absent"
                            /\ lesson_files[l].word # "absent")
              /\ c.prior_ok =>
                    ~c.generated /\ ~c.wrote_json /\ ~c.wrote_word /\ c.ok

C29_Witness ==
    /\ lpc = "returned"
    /\ runs = 2
    /\ call_log[1].prior_ok
    /\ call_log[1].branch = "skip"
    /\ call_log[2].branch = "render"
    /\ call_log[2].wrote_word
    /\ call_log[2].before = Files("complete", "absent")
    /\ ~call_log[2].prior_ok

\* C30: unless keep_temp_file, the converted mp3 is gone after the
\* transcription, returned or raised; and no file that was there before the
\* call, the source or a file at the derived output path, is deleted or
\* overwritten.
C30_OnlyOwnTempFile ==
    /\ (apc \in {"returned", "raised"} /\ formatted_audio # NoPath
            /\ ~keep_temp_file) =>
          files[formatted_audio] = "absent"
    /\ \A p \in Paths : files0[p] # "absent" => files[p] = files0[p]

====
